---- MODULE Spec2Model ----
(***************************************************************************)
(* A model of src/src/cc_log.rs: the cycle-collector log parser.           *)
(*                                                                         *)
(* A line of text is a tuple of one-character strings.  The regular        *)
(* expressions of CCGraph::parse_line are modelled character by character   *)
(* (EDGE_RE, NODE_RE, RESULT_RE, WEAK_MAP_RE, COMMENT_RE, SEPARATOR_RE,    *)
(* GARBAGE_RE, KNOWN_RE), the number conversions by what they accept and   *)
(* reject, and a Rust panic as the terminal control state "panicked" with  *)
(* the kind of the panic in err.                                           *)
(***************************************************************************)
EXTENDS Integers, Sequences, FiniteSets, TLC

VARIABLES
    lines,              \* the text lines the BufReader will yield, in file order
    pos,                \* how many lines the reader has yielded so far
    pc,                 \* "graph" | "results" | "done" | "panicked"
    err,                \* kind of the panic, "none" while there is none
    nodes,              \* CCGraph.nodes: Addr -> GraphNode
    weak_map_entries,   \* CCGraph.weak_map_entries
    incr_roots,         \* CCGraph.incr_roots
    atoms,              \* CCGraph.atoms: the strings interned so far
    results,            \* the local Vec<ParsedLine> of CCGraph::parse
    garbage,            \* CCResults.garbage
    known_edges         \* CCResults.known_edges: Addr -> count

vars == <<lines, pos, pc, err, nodes, weak_map_entries, incr_roots, atoms,
          results, garbage, known_edges>>

(***************************************************************************)
(* Characters and character classes of the regular expressions.            *)
(***************************************************************************)
Digit == {"0", "1", "2", "3", "4", "5", "6", "7", "8", "9"}

Lower == {"a", "b", "c", "d", "e", "f", "g", "h", "i", "j", "k", "l", "m",
          "n", "o", "p", "q", "r", "s", "t", "u", "v", "w", "x", "y", "z"}

Upper == {"A", "B", "C", "D", "E", "F", "G", "H", "I", "J", "K", "L", "M",
          "N", "O", "P", "Q", "R", "S", "T", "U", "V", "W", "X", "Y", "Z"}

\* [a-zA-Z0-9]
AlNum == Digit \cup Lower \cup Upper

\* [a-z0-9=]
TagChar == Lower \cup Digit \cup {"="}

\* the characters [^\r\n] excludes
Eol == {"\r", "\n"}

LowerHex == <<"0", "1", "2", "3", "4", "5", "6", "7", "8", "9",
              "a", "b", "c", "d", "e", "f">>

UpperHex == <<"0", "1", "2", "3", "4", "5", "6", "7", "8", "9",
              "A", "B", "C", "D", "E", "F">>

\* the characters u64::from_str_radix(_, 16) takes as digits
HexChar == {LowerHex[i] : i \in DOMAIN LowerHex} \cup {UpperHex[i] : i \in DOMAIN UpperHex}

HexDigitValue(c) ==
    CHOOSE v \in 0..(Len(LowerHex) - 1) : c \in {LowerHex[v + 1], UpperHex[v + 1]}

DecDigitValue(c) == HexDigitValue(c)

(***************************************************************************)
(* Matching primitives.  Indices are 1-based; an index Len(s) + 1 is the   *)
(* end of the text.                                                        *)
(***************************************************************************)
\* the literal lit occurs in s at index i
LitAt(s, i, lit) ==
    /\ i + Len(lit) - 1 <= Len(s)
    /\ \A j \in 1..Len(lit) : s[i + j - 1] = lit[j]

\* index just past the longest run of characters of class C that starts at i
RECURSIVE RunEnd(_, _, _)
RunEnd(s, i, C) ==
    IF i <= Len(s) /\ s[i] \in C THEN RunEnd(s, i + 1, C) ELSE i

\* index just past the longest run of characters outside class C that starts at i
RECURSIVE RunEndNot(_, _, _)
RunEndNot(s, i, C) ==
    IF i <= Len(s) /\ s[i] \notin C THEN RunEndNot(s, i + 1, C) ELSE i

\* s contains the literal lit somewhere (an unanchored regex of a literal)
Contains(s, lit) == \E i \in 1..(Len(s) + 1) : LitAt(s, i, lit)

Slice(s, lo, hi) == SubSeq(s, lo, hi - 1)

NoMatch == [ok |-> FALSE]

NilText == <<"(", "n", "i", "l", ")">>

HexPrefix == <<"0", "x">>

\* an AddrField without the optional 0x: the prefix is taken into the capture
AddrField_prefix_kept(s, i, nilOk) ==
    LET run == RunEnd(s, i, AlNum)
    IN  IF run > i THEN [ok |-> TRUE, lo |-> i, hi |-> run]
        ELSE IF nilOk /\ LitAt(s, i, NilText)
             THEN [ok |-> TRUE, lo |-> i, hi |-> i + Len(NilText)]
        ELSE NoMatch

(***************************************************************************)
(* (?:0x)?([a-zA-Z0-9]+)  and  (?:0x)?([a-zA-Z0-9]+|\(nil\))  at index i.  *)
(* The optional prefix and the alternation are tried in the regex's order: *)
(* prefix taken before prefix skipped, the alphanumeric run before (nil).  *)
(* Each alternative that matches here ends where a different one cannot    *)
(* continue, so the first that matches is the one the whole regex uses.    *)
(* The result gives the capture [lo, hi) and hi, where matching goes on.   *)
(***************************************************************************)
AddrField(s, i, nilOk) ==
    LET pre  == LitAt(s, i, HexPrefix)
        j    == i + Len(HexPrefix)
        runP == RunEnd(s, j, AlNum)
        run  == RunEnd(s, i, AlNum)
    IN  IF pre /\ runP > j THEN [ok |-> TRUE, lo |-> j, hi |-> runP]
        ELSE IF pre /\ nilOk /\ LitAt(s, j, NilText)
             THEN [ok |-> TRUE, lo |-> j, hi |-> j + Len(NilText)]
        ELSE IF run > i THEN [ok |-> TRUE, lo |-> i, hi |-> run]
        ELSE IF nilOk /\ LitAt(s, i, NilText)
             THEN [ok |-> TRUE, lo |-> i, hi |-> i + Len(NilText)]
        ELSE NoMatch



\* Literals of the regular expressions.
EdgeLead == <<">", " ">>

Space == <<" ">>

OpenBracket == <<" ", "[">>

CloseBracket == <<"]">>

CloseBracketSpace == <<"]", " ">>

RcLead == <<"r", "c", "=">>

GcLead == <<"g", "c">>

GcDotLead == <<"g", "c", ".">>

MarkedText == <<"m", "a", "r", "k", "e", "d">>

WeakMapLead == <<"W", "e", "a", "k", "M", "a", "p", "E", "n", "t", "r", "y", " ", "m", "a", "p", "=">>

KeyLead == <<" ", "k", "e", "y", "=">>

KeyDelegateLead == <<" ", "k", "e", "y", "D", "e", "l", "e", "g", "a", "t", "e", "=">>

ValueLead == <<" ", "v", "a", "l", "u", "e", "=">>

CommentLead == <<"#">>

SeparatorLead == <<"=", "=", "=", "=", "=", "=", "=", "=", "=", "=">>

GarbageText == <<"g", "a", "r", "b", "a", "g", "e">>

KnownLead == <<"k", "n", "o", "w", "n", "=">>

\* [^\r\n]* at index i: the capture is [i, RestEnd(s, i))
RestEnd(s, i) == RunEndNot(s, i, Eol)

\* EDGE_RE  ^> (?:0x)?([a-zA-Z0-9]+) ([^\r\n]*)\r?
EDGE_RE(s) ==
    LET a == AddrField(s, Len(EdgeLead) + 1, FALSE)
        l == a.hi + Len(Space)
    IN  IF LitAt(s, 1, EdgeLead) /\ a.ok /\ LitAt(s, a.hi, Space)
        THEN [ok |-> TRUE, c1 |-> Slice(s, a.lo, a.hi), c2 |-> Slice(s, l, RestEnd(s, l))]
        ELSE NoMatch

\* a type alternation followed by "]" alone: the space before the label is
\* not asked for
NodeTypeEnd_no_space(s, t) ==
    LET d == RunEnd(s, t + Len(RcLead), Digit)
        g == t + Len(GcLead)
        m == g + 1 + Len(MarkedText)
    IN  IF LitAt(s, t, RcLead) /\ d > t + Len(RcLead) /\ LitAt(s, d, CloseBracket)
        THEN d
        ELSE IF /\ LitAt(s, t, GcLead)
                /\ g <= Len(s) /\ s[g] # "\n"
                /\ LitAt(s, g + 1, MarkedText)
                /\ LitAt(s, m, CloseBracket)
        THEN m
        ELSE IF LitAt(s, t, GcLead) /\ LitAt(s, g, CloseBracket)
        THEN g
        ELSE 0

\* The type alternation of NODE_RE at index t, followed by "] ":
\* (rc=[0-9]+|gc(?:.marked)?)\]
\* The unescaped dot takes any one character but a newline.  Gives the
\* index just past the token, or 0 when no alternative matches.
NodeTypeEnd(s, t) ==
    LET d == RunEnd(s, t + Len(RcLead), Digit)
        g == t + Len(GcLead)
        m == g + 1 + Len(MarkedText)
    IN  IF LitAt(s, t, RcLead) /\ d > t + Len(RcLead) /\ LitAt(s, d, CloseBracketSpace)
        THEN d
        ELSE IF /\ LitAt(s, t, GcLead)
                /\ g <= Len(s) /\ s[g] # "\n"
                /\ LitAt(s, g + 1, MarkedText)
                /\ LitAt(s, m, CloseBracketSpace)
        THEN m
        ELSE IF LitAt(s, t, GcLead) /\ LitAt(s, g, CloseBracketSpace)
        THEN g
        ELSE 0

\* NODE_RE  ^(?:0x)?([a-zA-Z0-9]+) \[(rc=[0-9]+|gc(?:.marked)?)\] ([^\r\n]*)\r?
NODE_RE(s) ==
    LET a == AddrField(s, 1, FALSE)
        t == a.hi + Len(OpenBracket)
        e == NodeTypeEnd(s, t)
        l == e + Len(CloseBracketSpace)
    IN  IF a.ok /\ LitAt(s, a.hi, OpenBracket) /\ e > 0
        THEN [ok |-> TRUE, c1 |-> Slice(s, a.lo, a.hi), c2 |-> Slice(s, t, e),
              c3 |-> Slice(s, l, RestEnd(s, l))]
        ELSE NoMatch

\* RESULT_RE  ^(?:0x)?([a-zA-Z0-9]+) \[([a-z0-9=]+)\]\w*
\* The trailing \w* matches the empty text too, so it never decides.
RESULT_RE(s) ==
    LET a == AddrField(s, 1, FALSE)
        t == a.hi + Len(OpenBracket)
        e == RunEnd(s, t, TagChar)
    IN  IF a.ok /\ LitAt(s, a.hi, OpenBracket) /\ e > t /\ LitAt(s, e, CloseBracket)
        THEN [ok |-> TRUE, c1 |-> Slice(s, a.lo, a.hi), c2 |-> Slice(s, t, e)]
        ELSE NoMatch

\* WEAK_MAP_RE  ^WeakMapEntry map=(?:0x)?([a-zA-Z0-9]+|\(nil\))
\* key=(?:0x)?([a-zA-Z0-9]+|\(nil\))
\* keyDelegate=(?:0x)?([a-zA-Z0-9]+|\(nil\))
\* value=(?:0x)?([a-zA-Z0-9]+)\r?
\* Only the first three fields have the \(nil\) alternative.
WEAK_MAP_RE(s) ==
    LET f1 == AddrField(s, Len(WeakMapLead) + 1, TRUE)
        f2 == AddrField(s, f1.hi + Len(KeyLead), TRUE)
        f3 == AddrField(s, f2.hi + Len(KeyDelegateLead), TRUE)
        f4 == AddrField(s, f3.hi + Len(ValueLead), FALSE)
    IN  IF /\ LitAt(s, 1, WeakMapLead)
           /\ f1.ok /\ LitAt(s, f1.hi, KeyLead)
           /\ f2.ok /\ LitAt(s, f2.hi, KeyDelegateLead)
           /\ f3.ok /\ LitAt(s, f3.hi, ValueLead)
           /\ f4.ok
        THEN [ok |-> TRUE, c1 |-> Slice(s, f1.lo, f1.hi), c2 |-> Slice(s, f2.lo, f2.hi),
              c3 |-> Slice(s, f3.lo, f3.hi), c4 |-> Slice(s, f4.lo, f4.hi)]
        ELSE NoMatch

\* COMMENT_RE  ^#
COMMENT_RE(s) == LitAt(s, 1, CommentLead)

\* SEPARATOR_RE  ^==========
SEPARATOR_RE(s) == LitAt(s, 1, SeparatorLead)

\* GARBAGE_RE  garbage   (is_match: anywhere in the tag)
GARBAGE_RE(tag) == Contains(tag, GarbageText)

\* KNOWN_RE  ^known=(\d+)   (anchored at the start only)
KNOWN_RE(tag) ==
    LET d == Len(KnownLead) + 1
        e == RunEnd(tag, d, Digit)
    IN  IF LitAt(tag, 1, KnownLead) /\ e > d
        THEN [ok |-> TRUE, c1 |-> Slice(tag, d, e)]
        ELSE NoMatch


\* Number conversions.  A conversion gives [ok |-> TRUE, v |-> value] or,
\* where Rust's gives Err, [ok |-> FALSE].
AddrBits == 64

Zero == <<"0">>

\* the text without its leading zeros
RECURSIVE Significant(_)
Significant(d) ==
    IF Len(d) > 0 /\ Head(d) = "0" THEN Significant(Tail(d)) ELSE d

RECURSIVE HexValue(_)
HexValue(d) ==
    IF Len(d) = 0 THEN 0
    ELSE HexValue(SubSeq(d, 1, Len(d) - 1)) * Len(LowerHex) + HexDigitValue(d[Len(d)])

RECURSIVE DecValue(_)
DecValue(d) ==
    IF Len(d) = 0 THEN 0
    ELSE DecValue(SubSeq(d, 1, Len(d) - 1)) * Cardinality(Digit) + DecDigitValue(d[Len(d)])

\* a <= b for two digit texts without leading zeros
RECURSIVE DecLeq(_, _)
DecLeq(a, b) ==
    IF Len(a) # Len(b) THEN Len(a) < Len(b)
    ELSE IF Len(a) = 0 THEN TRUE
    ELSE IF Head(a) # Head(b) THEN DecDigitValue(Head(a)) < DecDigitValue(Head(b))
    ELSE DecLeq(Tail(a), Tail(b))

\* i32::MAX and u64::MAX in decimal
I32MaxText == <<"2", "1", "4", "7", "4", "8", "3", "6", "4", "7">>

U64MaxText == <<"1", "8", "4", "4", "6", "7", "4", "4", "0", "7", "3", "7", "0", "9", "5", "5", "1", "6", "1", "5">>

\* u64::from_str_radix(text, 16): Err on an empty text, on a character that is
\* no hexadecimal digit, and on a value of more than 64 bits
from_str_radix16(text) ==
    IF /\ Len(text) > 0
       /\ \A i \in 1..Len(text) : text[i] \in HexChar
       /\ Len(Significant(text)) * 4 <= AddrBits
    THEN [ok |-> TRUE, v |-> HexValue(Significant(text))]
    ELSE [ok |-> FALSE]

\* str::parse::<i32>() of a text of decimal digits: Err above i32::MAX
parse_i32(text) ==
    IF /\ Len(text) > 0
       /\ \A i \in 1..Len(text) : text[i] \in Digit
       /\ DecLeq(Significant(text), I32MaxText)
    THEN [ok |-> TRUE, v |-> DecValue(Significant(text))]
    ELSE [ok |-> FALSE]

\* u64::from_str of a text of decimal digits: Err above u64::MAX
u64_from_str(text) ==
    IF /\ Len(text) > 0
       /\ \A i \in 1..Len(text) : text[i] \in Digit
       /\ DecLeq(Significant(text), U64MaxText)
    THEN [ok |-> TRUE, v |-> DecValue(Significant(text))]
    ELSE [ok |-> FALSE]

\* The kinds of panic.  The first three are the panics parse_line raises
\* itself; ParseIntError is the unwrap() of a failed number conversion.
InvalidAddress == "InvalidAddress"

UnknownResultTag == "UnknownResultTag"

UnrecognizedLine == "UnrecognizedLine"

ParseIntError == "ParseIntError"

Panic(kind) == [panic |-> TRUE, err |-> kind]

\* s.split("rc=").nth(1): the text between the first "rc=" and the next one
\* (or the end); [ok |-> FALSE] (None) when s holds no "rc="
SplitRcNth1(s) ==
    IF ~Contains(s, RcLead) THEN [ok |-> FALSE]
    ELSE LET p == CHOOSE i \in 1..Len(s) :
                      LitAt(s, i, RcLead) /\ \A j \in 1..(i - 1) : ~LitAt(s, j, RcLead)
             b == p + Len(RcLead)
             later == {i \in b..Len(s) : LitAt(s, i, RcLead)}
             e == IF later = {} THEN Len(s) + 1
                  ELSE CHOOSE i \in later : \A j \in later : i <= j
         IN  [ok |-> TRUE, v |-> Slice(s, b, e)]

\* a NodeType::new that tests starts_with("gc") for the mark
NodeType_new_any_gc_marked(s) ==
    LET rc == SplitRcNth1(s)
    IN  IF rc.ok
        THEN IF parse_i32(rc.v).ok
             THEN [panic |-> FALSE, v |-> [tag |-> "RefCounted", rc |-> parse_i32(rc.v).v]]
             ELSE Panic(ParseIntError)
        ELSE [panic |-> FALSE, v |-> [tag |-> "GC", marked |-> LitAt(s, 1, GcLead)]]

\* NodeType::new
NodeType_new(s) ==
    LET rc == SplitRcNth1(s)
    IN  IF rc.ok
        THEN IF parse_i32(rc.v).ok
             THEN [panic |-> FALSE, v |-> [tag |-> "RefCounted", rc |-> parse_i32(rc.v).v]]
             ELSE Panic(ParseIntError)
        ELSE [panic |-> FALSE, v |-> [tag |-> "GC", marked |-> LitAt(s, 1, GcDotLead)]]

\* CCGraph::atomize_addr
atomize_addr(addr_str) ==
    IF from_str_radix16(addr_str).ok
    THEN [panic |-> FALSE, v |-> from_str_radix16(addr_str).v]
    ELSE Panic(InvalidAddress)

\* an atomize_weakmap_addr without the (nil) case
atomize_weakmap_addr_no_nil(x) == atomize_addr(x)

\* CCGraph::atomize_weakmap_addr
atomize_weakmap_addr(x) ==
    IF x = NilText THEN atomize_addr(Zero) ELSE atomize_addr(x)


\* ParsedLine values
Node(addr, ty, label) == [kind |-> "Node", addr |-> addr, ty |-> ty, label |-> label]

Edge(addr, label) == [kind |-> "Edge", addr |-> addr, label |-> label]

WeakMap(map, key, delegate, val) ==
    [kind |-> "WeakMap", map |-> map, key |-> key, delegate |-> delegate, val |-> val]

Comment == [kind |-> "Comment"]

Separator == [kind |-> "Separator"]

Garbage(obj) == [kind |-> "Garbage", addr |-> obj]

KnownEdge(obj, count) == [kind |-> "KnownEdge", addr |-> obj, count |-> count]

\* a line classified: the ParsedLine and the labels atomize_label interned
Parsed(v, interned) == [panic |-> FALSE, v |-> v, interned |-> interned]

\* the first of the results rs (in call order) that is a panic
FirstPanic(rs) ==
    rs[CHOOSE i \in 1..Len(rs) : rs[i].panic /\ \A j \in 1..(i - 1) : ~rs[j].panic]

\* the KNOWN_RE arm of the RESULT_RE arm
parse_known(obj, known) ==
    IF known.ok
    THEN IF u64_from_str(known.c1).ok
         THEN Parsed(KnownEdge(obj.v, u64_from_str(known.c1).v), {})
         ELSE Panic(ParseIntError)
    ELSE Panic(UnknownResultTag)

\* a RESULT_RE arm that tries KNOWN_RE before GARBAGE_RE
parse_result_known_first(obj, tag) ==
    IF obj.panic THEN obj
    ELSE IF KNOWN_RE(tag).ok THEN parse_known(obj, KNOWN_RE(tag))
    ELSE IF GARBAGE_RE(tag) THEN Parsed(Garbage(obj.v), {})
    ELSE Panic(UnknownResultTag)

\* the RESULT_RE arm of parse_line
parse_result(obj, tag) ==
    IF obj.panic THEN obj
    ELSE IF GARBAGE_RE(tag) THEN Parsed(Garbage(obj.v), {})
    ELSE parse_known(obj, KNOWN_RE(tag))

parse_result_line(caps) == parse_result(atomize_addr(caps.c1), caps.c2)

\* the WEAK_MAP_RE arm of parse_line, rs the four conversions in call order
parse_weak_map(rs) ==
    IF \E i \in 1..Len(rs) : rs[i].panic THEN FirstPanic(rs)
    ELSE Parsed(WeakMap(rs[1].v, rs[2].v, rs[3].v, rs[4].v), {})

parse_weak_map_line(caps) ==
    parse_weak_map(<<atomize_weakmap_addr(caps.c1), atomize_weakmap_addr(caps.c2),
                     atomize_weakmap_addr(caps.c3), atomize_weakmap_addr(caps.c4)>>)

\* a parse_line that skips a line it does not recognise, as if it were a comment
parse_no_match_skips == Parsed(Comment, {})

\* what parse_line does with a line that matches none of its patterns
parse_no_match == Panic(UnrecognizedLine)

\* the EDGE_RE arm of parse_line.  An atom is modelled by the string it stands for.
parse_edge_line(caps, addr) ==
    IF addr.panic THEN addr ELSE Parsed(Edge(addr.v, caps.c2), {caps.c2})

\* the NODE_RE arm of parse_line
parse_node_line(caps, addr, ty) ==
    IF addr.panic THEN addr
    ELSE IF ty.panic THEN ty
    ELSE Parsed(Node(addr.v, ty.v, caps.c3), {caps.c3})

\* a parse_line that tries RESULT_RE before NODE_RE
parse_line_result_first(line) ==
    IF EDGE_RE(line).ok
    THEN parse_edge_line(EDGE_RE(line), atomize_addr(EDGE_RE(line).c1))
    ELSE IF RESULT_RE(line).ok THEN parse_result_line(RESULT_RE(line))
    ELSE IF NODE_RE(line).ok
    THEN parse_node_line(NODE_RE(line), atomize_addr(NODE_RE(line).c1),
                         NodeType_new(NODE_RE(line).c2))
    ELSE IF WEAK_MAP_RE(line).ok THEN parse_weak_map_line(WEAK_MAP_RE(line))
    ELSE IF COMMENT_RE(line) THEN Parsed(Comment, {})
    ELSE IF SEPARATOR_RE(line) THEN Parsed(Separator, {})
    ELSE parse_no_match

\* CCGraph::parse_line: the patterns are tried in this order and the first
\* that matches decides
parse_line(line) ==
    IF EDGE_RE(line).ok
    THEN parse_edge_line(EDGE_RE(line), atomize_addr(EDGE_RE(line).c1))
    ELSE IF NODE_RE(line).ok
    THEN parse_node_line(NODE_RE(line), atomize_addr(NODE_RE(line).c1),
                         NodeType_new(NODE_RE(line).c2))
    ELSE IF RESULT_RE(line).ok THEN parse_result_line(RESULT_RE(line))
    ELSE IF WEAK_MAP_RE(line).ok THEN parse_weak_map_line(WEAK_MAP_RE(line))
    ELSE IF COMMENT_RE(line) THEN Parsed(Comment, {})
    ELSE IF SEPARATOR_RE(line) THEN Parsed(Separator, {})
    ELSE parse_no_match

\* The input lines of the model.
\* 5 [rc=3] Foo
LineNodeRc5 ==
    <<"5", " ", "[", "r", "c", "=", "3", "]", " ", "F", "o", "o">>

\* 0x6 [gc.marked] Bar
LineNodeGc6 ==
    <<"0", "x", "6", " ", "[", "g", "c", ".", "m", "a", "r", "k", "e", "d", "]", " ", "B", "a", "r">>

\* > 6 edge1
LineEdge6 ==
    <<">", " ", "6", " ", "e", "d", "g", "e", "1">>

\* WeakMapEntry map=(nil) key=0x5 keyDelegate=(nil) value=0x9
LineWeakMapNil ==
    <<"W", "e", "a", "k", "M", "a", "p", "E", "n", "t", "r", "y", " ", "m", "a", "p", "=", "(", "n", "i", "l", ")", " ", "k", "e", "y", "=", "0", "x", "5", " ", "k", "e", "y", "D", "e", "l", "e", "g", "a", "t", "e", "=", "(", "n", "i", "l", ")", " ", "v", "a", "l", "u", "e", "=", "0", "x", "9">>

\* # cc
LineComment ==
    <<"#", " ", "c", "c">>

\* ==========
LineSeparator ==
    <<"=", "=", "=", "=", "=", "=", "=", "=", "=", "=">>

\* 5 [garbage]
LineGarbage5 ==
    <<"5", " ", "[", "g", "a", "r", "b", "a", "g", "e", "]">>

\* 6 [known=2]
LineKnown6 ==
    <<"6", " ", "[", "k", "n", "o", "w", "n", "=", "2", "]">>

\* garbage truck
LineGarbageTruck ==
    <<"g", "a", "r", "b", "a", "g", "e", " ", "t", "r", "u", "c", "k">>

\* zz [gc] Foo
LineBadAddrNode ==
    <<"z", "z", " ", "[", "g", "c", "]", " ", "F", "o", "o">>

\* 5 [gc]
LineBareGc5 ==
    <<"5", " ", "[", "g", "c", "]">>

\* 6 [known=3]
LineKnown6Again ==
    <<"6", " ", "[", "k", "n", "o", "w", "n", "=", "3", "]">>

\* 5 [gc.marked]
LineBareGcMarked5 ==
    <<"5", " ", "[", "g", "c", ".", "m", "a", "r", "k", "e", "d", "]">>

\* 5 [rc=3]
LineBareRc5 ==
    <<"5", " ", "[", "r", "c", "=", "3", "]">>

\* the lines an input of Spec is made of
Corpus ==
    {LineNodeRc5, LineNodeGc6, LineEdge6, LineWeakMapNil, LineComment, LineSeparator,
     LineGarbage5, LineKnown6, LineKnown6Again, LineGarbageTruck, LineBadAddrNode,
     LineBareGc5, LineBareGcMarked5, LineBareRc5}

MaxLines == 3

\* the sequences over S of length 0..n
SeqUpTo(S, n) == UNION {[1..k -> S] : k \in 0..n}

EmptyMap == [a \in {} |-> 0]

\* CCGraph::new and CCResults::new, before the first line is read
InitState ==
    /\ pos = 0
    /\ pc = "graph"
    /\ err = "none"
    /\ nodes = EmptyMap
    /\ weak_map_entries = <<>>
    /\ incr_roots = {}
    /\ atoms = {}
    /\ results = <<>>
    /\ garbage = {}
    /\ known_edges = EmptyMap

Init ==
    /\ lines \in SeqUpTo(Corpus, MaxLines)
    /\ InitState

\* a loop body that takes the address of each Node line for an incremental root
push_parsed_roots(r) ==
    /\ ~r.panic
    /\ results' = Append(results, r.v)
    /\ atoms' = atoms \cup r.interned
    /\ incr_roots' = IF r.v.kind = "Node" THEN incr_roots \cup {r.v.addr} ELSE incr_roots

\* CCGraph::parse, the body of its loop for a line parse_line classified as r:
\* the ParsedLine is pushed onto the local vector and nothing else is done
\* with it
push_parsed(r) ==
    /\ ~r.panic
    /\ results' = Append(results, r.v)
    /\ atoms' = atoms \cup r.interned
    /\ UNCHANGED incr_roots

\* CCGraph::parse, one turn of its loop
CCGraph_parse_line ==
    /\ pc = "graph"
    /\ pos < Len(lines)
    /\ push_parsed(parse_line(lines[pos + 1]))
    /\ pos' = pos + 1
    /\ UNCHANGED <<lines, pc, err, nodes, weak_map_entries, garbage, known_edges>>

\* a panic unwinds out of CCLog::parse
panic_unwinds(r) ==
    /\ r.panic
    /\ err' = r.err
    /\ pc' = "panicked"

\* CCGraph::parse, one turn of its loop: parse_line panics
CCGraph_parse_panic ==
    /\ pc = "graph"
    /\ pos < Len(lines)
    /\ panic_unwinds(parse_line(lines[pos + 1]))
    /\ pos' = pos + 1
    /\ UNCHANGED <<lines, nodes, weak_map_entries, incr_roots, atoms, results, garbage,
                   known_edges>>

\* CCGraph::parse returns at the end of the input; the local vector is dropped
CCGraph_parse_return ==
    /\ pc = "graph"
    /\ pos = Len(lines)
    /\ pc' = "results"
    /\ results' = <<>>
    /\ UNCHANGED <<lines, pos, err, nodes, weak_map_entries, incr_roots, atoms, garbage,
                   known_edges>>

UnexpectedLine == "UnexpectedLine"

\* known_edges.insert(addr, count): a count already there is overwritten
MapInsert(m, k, v) == [a \in DOMAIN m \cup {k} |-> IF a = k THEN v ELSE m[a]]

\* CCResults::parse is called by CCLog::parse and is not part of the source
\* file; it is modelled from the description of the results builder.
\* One line of the results section, classified as r, folded into acc.
CCResults_step(r, acc) ==
    IF r.panic THEN [panic |-> TRUE, err |-> r.err, n |-> acc.n + 1]
    ELSE IF r.v.kind = "Garbage"
    THEN [acc EXCEPT !.n = @ + 1, !.garbage = @ \cup {r.v.addr}]
    ELSE IF r.v.kind = "KnownEdge"
    THEN [acc EXCEPT !.n = @ + 1, !.known_edges = MapInsert(@, r.v.addr, r.v.count)]
    ELSE IF r.v.kind \in {"Comment", "Separator"}
    THEN [acc EXCEPT !.n = @ + 1]
    ELSE [panic |-> TRUE, err |-> UnexpectedLine, n |-> acc.n + 1]

\* the lines the reader still holds, folded in order up to the first panic
RECURSIVE CCResults_build(_, _)
CCResults_build(rest, acc) ==
    IF rest = <<>> \/ acc.panic THEN acc
    ELSE CCResults_build(Tail(rest), CCResults_step(parse_line(Head(rest)), acc))

\* CCResults::new
CCResults_new == [panic |-> FALSE, n |-> 0, garbage |-> {}, known_edges |-> EmptyMap]

\* CCLog::parse once CCResults::parse has ended as r: the CCLog is built, or
\* the panic unwinds
CCLog_built(r) ==
    /\ pos' = pos + r.n
    /\ IF r.panic
       THEN /\ pc' = "panicked"
            /\ err' = r.err
            /\ UNCHANGED <<garbage, known_edges>>
       ELSE /\ pc' = "done"
            /\ garbage' = r.garbage
            /\ known_edges' = r.known_edges
            /\ UNCHANGED err

\* CCLog::parse, its second call: CCResults::parse on the same reader, which
\* CCGraph::parse has left at the end of the input
CCResults_parse ==
    /\ pc = "results"
    /\ CCLog_built(CCResults_build(SubSeq(lines, pos + 1, Len(lines)), CCResults_new))
    /\ UNCHANGED <<lines, nodes, weak_map_entries, incr_roots, atoms, results>>

Next ==
    \/ CCGraph_parse_line
    \/ CCGraph_parse_panic
    \/ CCGraph_parse_return
    \/ CCResults_parse

Spec == Init /\ [][Next]_vars


\* ------------------------------------------------------------------------
\* Reading the input by its lines, for the properties below.
\* ------------------------------------------------------------------------
\* the kind of line i as parse_line classifies it, "Panic" when it panics
LineKind(i) ==
    IF parse_line(lines[i]).panic THEN "Panic" ELSE parse_line(lines[i]).v.kind

LineParsed(i) == parse_line(lines[i]).v

\* index of the first Separator line, Len(lines) + 1 when there is none
FirstSeparator ==
    IF \E i \in 1..Len(lines) : LineKind(i) = "Separator"
    THEN CHOOSE i \in 1..Len(lines) :
             LineKind(i) = "Separator" /\ \A j \in 1..(i - 1) : LineKind(j) # "Separator"
    ELSE Len(lines) + 1

\* line i is a Node line of the graph section
GraphNodeLine(i) == i < FirstSeparator /\ LineKind(i) = "Node"

\* index of the line that closes the node opened at line i: the next Node or
\* Separator line, Len(lines) + 1 at the end of the input
NodeClose(i) ==
    IF \E j \in (i + 1)..Len(lines) : LineKind(j) \in {"Node", "Separator"}
    THEN CHOOSE j \in (i + 1)..Len(lines) :
             /\ LineKind(j) \in {"Node", "Separator"}
             /\ \A h \in (i + 1)..(j - 1) : LineKind(h) \notin {"Node", "Separator"}
    ELSE Len(lines) + 1

\* the Edge lines read while the node of line i is open, in file order
EdgeLinesOf(i) ==
    SelectSeq(SubSeq([j \in 1..Len(lines) |-> j], i + 1, NodeClose(i) - 1),
              LAMBDA j : LineKind(j) = "Edge")

\* the EdgeInfo values of those lines
EdgeInfosOf(i) ==
    [n \in 1..Len(EdgeLinesOf(i)) |->
        [addr |-> LineParsed(EdgeLinesOf(i)[n]).addr, label |-> LineParsed(EdgeLinesOf(i)[n]).label]]

\* the address of Node line i is on no other Node line of the graph section
OnlyNodeLineOfItsAddress(i) ==
    \A j \in 1..Len(lines) :
        (GraphNodeLine(j) /\ LineParsed(j).addr = LineParsed(i).addr) => j = i

\* the line matches none of the six patterns of parse_line
MatchesNone(line) ==
    /\ ~EDGE_RE(line).ok
    /\ ~NODE_RE(line).ok
    /\ ~RESULT_RE(line).ok
    /\ ~WEAK_MAP_RE(line).ok
    /\ ~COMMENT_RE(line)
    /\ ~SEPARATOR_RE(line)

DuplicateNode == "DuplicateNode"

EdgeWithoutNode == "EdgeWithoutNode"

\* ------------------------------------------------------------------------
\* C1.  When the parse ends without error, every address that is on exactly
\* one Node line of the graph section is a key of graph.nodes, and its edge
\* list is as long as the number of Edge lines between its Node line and the
\* next Node line, Separator line or end of input.
\* CCGraph::parse pushes each ParsedLine onto a local vector and never
\* calls add_node, so graph.nodes stays empty: the statement fails.
\* ------------------------------------------------------------------------
C1_NodeLinesReachNodes ==
    pc = "done" =>
        \A i \in 1..Len(lines) :
            (GraphNodeLine(i) /\ OnlyNodeLineOfItsAddress(i)) =>
                /\ LineParsed(i).addr \in DOMAIN nodes
                /\ Len(nodes[LineParsed(i).addr].edges) = Len(EdgeLinesOf(i))

\* ------------------------------------------------------------------------
\* C2.  When the parse ends without error, the edge list of the node of a
\* Node line that was followed by Edge lines is exactly the (target, label)
\* pairs of those Edge lines in file order, equal lines giving separate
\* entries.  No node is ever finalised by CCGraph::parse and the Edge values
\* are dropped with the local vector: the statement fails.
\* ------------------------------------------------------------------------
C2_EdgeListIsEdgeLinesInOrder ==
    pc = "done" =>
        \A i \in 1..Len(lines) :
            (GraphNodeLine(i) /\ OnlyNodeLineOfItsAddress(i) /\ Len(EdgeLinesOf(i)) > 0) =>
                /\ LineParsed(i).addr \in DOMAIN nodes
                /\ nodes[LineParsed(i).addr].edges = EdgeInfosOf(i)

\* ------------------------------------------------------------------------
\* C3.  A Node line whose address was finalised before it was read (an
\* earlier Node line of that address, closed by a Node line in between) ends
\* the parse in DuplicateNode: such an input never yields a CCLog.
\* CCGraph::parse never inserts a node, so the assertion of add_node is
\* never evaluated and the parse succeeds: the statement fails.
\* ------------------------------------------------------------------------
C3_DuplicateNodeIsFatal ==
    \A i, j, k \in 1..Len(lines) :
        (/\ i < j /\ j < k
         /\ GraphNodeLine(i) /\ GraphNodeLine(j) /\ GraphNodeLine(k)
         /\ LineParsed(i).addr = LineParsed(k).addr) =>
            pc # "done"

\* ------------------------------------------------------------------------
\* C4.  In the graph section an Edge line read before any Node line ends
\* the parse there in EdgeWithoutNode.  CCGraph::parse pushes the Edge onto
\* the local vector and goes on: the statement fails.
\* ------------------------------------------------------------------------
EdgeBeforeAnyNode(k) ==
    /\ k < FirstSeparator
    /\ LineKind(k) = "Edge"
    /\ \A j \in 1..(k - 1) : LineKind(j) \in {"Comment", "WeakMap"}

C4_EdgeWithoutNodeIsFatal ==
    \A k \in 1..pos :
        EdgeBeforeAnyNode(k) => (pc = "panicked" /\ err = EdgeWithoutNode /\ pos = k)

\* ------------------------------------------------------------------------
\* C5.  A line that matches none of the six patterns ends the parse at that
\* line with UnrecognizedLine: no CCLog is built, and nothing of that line or
\* of a later line is in the accumulators.
\* ------------------------------------------------------------------------
\* the accumulators hold nothing but what lines 1..n can have put there
HoldOnlyLinesUpTo(n) ==
    /\ Len(results) <= n
    /\ \A a \in DOMAIN nodes : \E i \in 1..n : LineKind(i) = "Node" /\ LineParsed(i).addr = a
    /\ Len(weak_map_entries) <= Cardinality({i \in 1..n : LineKind(i) = "WeakMap"})
    /\ \A s \in atoms : \E i \in 1..n :
           LineKind(i) \in {"Node", "Edge"} /\ LineParsed(i).label = s
    /\ \A a \in garbage : \E i \in 1..n : LineKind(i) = "Garbage" /\ LineParsed(i).addr = a
    /\ \A a \in DOMAIN known_edges :
           \E i \in 1..n : LineKind(i) = "KnownEdge" /\ LineParsed(i).addr = a

C5_UnrecognizedLineStopsTheParse ==
    \A k \in 1..pos :
        MatchesNone(lines[k]) =>
            /\ pc = "panicked"
            /\ err = UnrecognizedLine
            /\ pos = k
            /\ HoldOnlyLinesUpTo(k - 1)

\* the parse has stopped at an unrecognised line that has lines before and
\* after it
C5_Witness ==
    /\ pc = "panicked"
    /\ err = UnrecognizedLine
    /\ 1 < pos /\ pos < Len(lines)
    /\ MatchesNone(lines[pos])
    /\ Len(results) = pos - 1
    /\ atoms # {}

\* ------------------------------------------------------------------------
\* C6.  Lines after the first Separator are handled by the results builder:
\* when the parse ends without error, garbage and known_edges hold exactly
\* the addresses of the Garbage and KnownEdge lines after the first
\* Separator.  CCGraph::parse does not stop at the Separator; it reads the
\* reader to its end, so CCResults::parse finds nothing left: the statement
\* fails.
\* ------------------------------------------------------------------------
ResultLinesOfKind(kind) ==
    {i \in (FirstSeparator + 1)..Len(lines) : LineKind(i) = kind}

C6_ResultsHoldLinesAfterSeparator ==
    pc = "done" =>
        /\ garbage = {LineParsed(i).addr : i \in ResultLinesOfKind("Garbage")}
        /\ DOMAIN known_edges = {LineParsed(i).addr : i \in ResultLinesOfKind("KnownEdge")}

\* ------------------------------------------------------------------------
\* C7.  A well-formed line in the wrong section ends the parse there in
\* UnexpectedLine: a Garbage or KnownEdge line before the first Separator, a
\* Node, Edge or WeakMap line after it.  CCGraph::parse accepts every kind
\* of ParsedLine anywhere: the statement fails.
\* ------------------------------------------------------------------------
InWrongSection(k) ==
    \/ k < FirstSeparator /\ LineKind(k) \in {"Garbage", "KnownEdge"}
    \/ k > FirstSeparator /\ LineKind(k) \in {"Node", "Edge", "WeakMap"}

C7_WrongSectionIsFatal ==
    \A k \in 1..pos :
        InWrongSection(k) => (pc = "panicked" /\ err = UnexpectedLine /\ pos = k)


\* ------------------------------------------------------------------------
\* Single lines, for the properties of the classification of one line.
\* A line is written from its tokens here and parsed by parse_line, so what
\* a property expects of a line is stated from the tokens it was written
\* from, not from what the patterns captured.
\* ------------------------------------------------------------------------
\* address tokens as the log writes them, with the address each one denotes
AddrTokens ==
    {[text |-> <<"5">>, value |-> 5],
     [text |-> <<"0", "x", "6">>, value |-> 6],
     [text |-> <<"1", "F">>, value |-> 31],
     [text |-> <<"0", "x", "0", "0", "a", "0">>, value |-> 160]}

\* the text of a field of a WeakMapEntry line, with the address it denotes
WeakMapFields ==
    {[text |-> <<"(", "n", "i", "l", ")">>, value |-> 0],
     [text |-> <<"0", "x", "5">>, value |-> 5],
     [text |-> <<"9">>, value |-> 9],
     [text |-> <<"0", "x", "A", "b">>, value |-> 171]}

\* tags of a result line.  expect is what the tag is to classify as when
\* "matches known=<digits>" is read as the whole tag: Garbage when it
\* contains "garbage", else KnownEdge when it is known= followed by digits and
\* nothing else (digits: those digits), else UnknownResultTag.  lead is the
\* run of digits that follows a leading known=, whatever comes after it.
ResultTags ==
    {[text |-> <<"g", "a", "r", "b", "a", "g", "e">>,
      expect |-> "Garbage", digits |-> <<>>,
      lead |-> <<>>],
     [text |-> <<"x", "g", "a", "r", "b", "a", "g", "e", "1">>,
      expect |-> "Garbage", digits |-> <<>>,
      lead |-> <<>>],
     [text |-> <<"k", "n", "o", "w", "n", "=", "3", "g", "a", "r", "b", "a", "g", "e">>,
      expect |-> "Garbage", digits |-> <<>>,
      lead |-> <<"3">>],
     [text |-> <<"k", "n", "o", "w", "n", "=", "2">>,
      expect |-> "KnownEdge", digits |-> <<"2">>,
      lead |-> <<"2">>],
     [text |-> <<"k", "n", "o", "w", "n", "=", "0", "0", "7">>,
      expect |-> "KnownEdge", digits |-> <<"0", "0", "7">>,
      lead |-> <<"0", "0", "7">>],
     [text |-> <<"k", "n", "o", "w", "n", "=", "1", "8", "4", "4", "6", "7", "4", "4", "0", "7", "3", "7", "0", "9", "5", "5", "1", "6", "1", "6">>,
      expect |-> "KnownEdge", digits |-> <<"1", "8", "4", "4", "6", "7", "4", "4", "0", "7", "3", "7", "0", "9", "5", "5", "1", "6", "1", "6">>,
      lead |-> <<"1", "8", "4", "4", "6", "7", "4", "4", "0", "7", "3", "7", "0", "9", "5", "5", "1", "6", "1", "6">>],
     [text |-> <<"k", "n", "o", "w", "n", "=", "2", "x">>,
      expect |-> "UnknownResultTag", digits |-> <<>>,
      lead |-> <<"2">>],
     [text |-> <<"k", "n", "o", "w", "n", "=">>,
      expect |-> "UnknownResultTag", digits |-> <<>>,
      lead |-> <<>>],
     [text |-> <<"x", "k", "n", "o", "w", "n", "=", "2">>,
      expect |-> "UnknownResultTag", digits |-> <<>>,
      lead |-> <<>>],
     [text |-> <<"g", "c">>,
      expect |-> "UnknownResultTag", digits |-> <<>>,
      lead |-> <<>>],
     [text |-> <<"r", "c", "=", "3">>,
      expect |-> "UnknownResultTag", digits |-> <<>>,
      lead |-> <<>>]}

\* type tokens the Node pattern accepts, with the NodeType of each: rc=<N>
\* is RefCounted(N) (digits: N), anything else GC(marked), marked only for
\* gc.marked
TypeTokens ==
    {[text |-> <<"r", "c", "=", "3">>,
      expect |-> "RefCounted", digits |-> <<"3">>, marked |-> FALSE],
     [text |-> <<"r", "c", "=", "0">>,
      expect |-> "RefCounted", digits |-> <<"0">>, marked |-> FALSE],
     [text |-> <<"r", "c", "=", "0", "0", "7">>,
      expect |-> "RefCounted", digits |-> <<"0", "0", "7">>, marked |-> FALSE],
     [text |-> <<"r", "c", "=", "2", "1", "4", "7", "4", "8", "3", "6", "4", "7">>,
      expect |-> "RefCounted", digits |-> <<"2", "1", "4", "7", "4", "8", "3", "6", "4", "7">>, marked |-> FALSE],
     [text |-> <<"r", "c", "=", "2", "1", "4", "7", "4", "8", "3", "6", "4", "8">>,
      expect |-> "RefCounted", digits |-> <<"2", "1", "4", "7", "4", "8", "3", "6", "4", "8">>, marked |-> FALSE],
     [text |-> <<"g", "c">>,
      expect |-> "GC", digits |-> <<>>, marked |-> FALSE],
     [text |-> <<"g", "c", ".", "m", "a", "r", "k", "e", "d">>,
      expect |-> "GC", digits |-> <<>>, marked |-> TRUE],
     [text |-> <<"g", "c", "X", "m", "a", "r", "k", "e", "d">>,
      expect |-> "GC", digits |-> <<>>, marked |-> FALSE],
     [text |-> <<"g", "c", "-", "m", "a", "r", "k", "e", "d">>,
      expect |-> "GC", digits |-> <<>>, marked |-> FALSE]}

NodeLabels ==
    {<<"F", "o", "o">>, <<>>, <<"a", " ", "b", "]">>}

\* <addr> [<tag>]
ResultLine(a, tag) == a \o OpenBracket \o tag \o CloseBracket

\* <addr> [<type>] <label>
NodeLine(a, tok, label) == a \o OpenBracket \o tok \o CloseBracketSpace \o label

\* WeakMapEntry map=<m> key=<k> keyDelegate=<d> value=<v>
WeakMapLine(m, k, d, v) ==
    WeakMapLead \o m \o KeyLead \o k \o KeyDelegateLead \o d \o ValueLead \o v

ResultLines == {ResultLine(a.text, t.text) : a \in AddrTokens, t \in ResultTags}

NodeLines == {NodeLine(a.text, t.text, l) : a \in AddrTokens, t \in TypeTokens, l \in NodeLabels}

WeakMapLines ==
    {WeakMapLine(m.text, k.text, d.text, v.text) :
        m \in WeakMapFields, k \in WeakMapFields, d \in WeakMapFields, v \in WeakMapFields}

\* hexadecimal digit strings, with the address each one denotes
HexTexts ==
    {[text |-> <<"5">>, value |-> 5],
     [text |-> <<"1", "F">>, value |-> 31],
     [text |-> <<"0", "0", "a", "0">>, value |-> 160],
     [text |-> <<"f", "F", "f", "F", "f", "F", "f">>, value |-> 268435455]}

\* a string of seventeen hexadecimal digits: 2^64, one more than an address holds
TooWideHexText ==
    <<"1", "0", "0", "0", "0", "0", "0", "0", "0", "0", "0", "0", "0", "0", "0", "0", "0">>

\* alphanumeric address tokens that are no hexadecimal digit strings
BadAddrTexts ==
    {<<"z", "z">>, <<"5", "g">>, <<"0", "X", "5">>}

\* the two spellings of an address: bare, and with a leading 0x
Spellings == {<<>>, HexPrefix}

\* the places of a line an address token stands in: the address of an Edge,
\* Node or ResultEntry line, the map or the value field of a WeakMapEntry line
AddrPlaces == {"Edge", "Node", "ResultEntry", "WeakMapMap", "WeakMapValue"}

\* the label of the Edge and Node lines below
PlaceLabel == <<"l", "b", "l">>

\* a line of that shape with the address token a in that place
PlaceLine(place, a) ==
    IF place = "Edge" THEN EdgeLead \o a \o Space \o PlaceLabel
    ELSE IF place = "Node" THEN NodeLine(a, GcLead, PlaceLabel)
    ELSE IF place = "ResultEntry" THEN ResultLine(a, GarbageText)
    ELSE IF place = "WeakMapMap" THEN WeakMapLine(a, NilText, NilText, Zero)
    ELSE WeakMapLine(NilText, NilText, NilText, a)

\* the ParsedLine of such a line when its address token denotes v
PlaceParsed(place, v) ==
    IF place = "Edge" THEN Edge(v, PlaceLabel)
    ELSE IF place = "Node" THEN Node(v, [tag |-> "GC", marked |-> FALSE], PlaceLabel)
    ELSE IF place = "ResultEntry" THEN Garbage(v)
    ELSE IF place = "WeakMapMap" THEN WeakMap(v, 0, 0, 0)
    ELSE WeakMap(0, 0, 0, v)

AddressLines ==
    {PlaceLine(place, pre \o a) :
        place \in AddrPlaces, pre \in Spellings,
        a \in {d.text : d \in HexTexts} \cup {TooWideHexText} \cup BadAddrTexts}

ClassifyCorpus == Corpus \cup ResultLines \cup NodeLines \cup WeakMapLines \cup AddressLines

\* the parse of an input of one line
InitClassify ==
    /\ lines \in {<<l>> : l \in ClassifyCorpus}
    /\ InitState

SpecClassify == InitClassify /\ [][Next]_vars

\* the one line of the input has been read and classified without a panic,
\* and its ParsedLine is the last the local vector holds
Classified == pos = 1 /\ pc = "graph" /\ Len(results) = 1

\* the one line of the input has been read
LineRead == pos >= 1

\* ------------------------------------------------------------------------
\* C8 as claimed.  A result line <addr> [<tag>] classifies as Garbage(addr)
\* when the tag contains "garbage", else as KnownEdge(addr, count) when the
\* tag is known=<digits>, count the decimal value of the digits; any other
\* tag ends the parse in UnknownResultTag.  The count is a u64 and a larger
\* one panics in unwrap(), and KNOWN_RE is anchored at its start only, so
\* known=2x classifies as KnownEdge(addr, 2): the statement fails.
\* ------------------------------------------------------------------------
C8_ResultTagDecides ==
    \A a \in AddrTokens, t \in ResultTags :
        (LineRead /\ lines[1] = ResultLine(a.text, t.text)) =>
            IF t.expect = "UnknownResultTag"
            THEN pc = "panicked" /\ err = UnknownResultTag
            ELSE /\ pc # "panicked"
                 /\ Classified =>
                        IF t.expect = "Garbage"
                        THEN results[1] = Garbage(a.value)
                        ELSE results[1] = KnownEdge(a.value, DecValue(t.digits))

\* ------------------------------------------------------------------------
\* C8 as amended.  A result line <addr> [<tag>] classifies as Garbage(addr)
\* when the tag contains "garbage"; else, when the tag begins with
\* known=<digits>, whatever follows the digits, as KnownEdge(addr, count),
\* count the decimal value of those digits, provided it is at most u64::MAX,
\* and the parse ends in a panic of unwrap() (ParseIntError) when it is
\* larger; every other tag ends the parse in UnknownResultTag.
\* ------------------------------------------------------------------------
C8_ResultTagDecidesByPrefix ==
    \A a \in AddrTokens, t \in ResultTags :
        (LineRead /\ lines[1] = ResultLine(a.text, t.text)) =>
            IF t.expect = "Garbage"
            THEN pc # "panicked" /\ (Classified => results[1] = Garbage(a.value))
            ELSE IF t.lead = <<>>
            THEN pc = "panicked" /\ err = UnknownResultTag
            ELSE IF DecLeq(Significant(t.lead), U64MaxText)
            THEN /\ pc # "panicked"
                 /\ Classified => results[1] = KnownEdge(a.value, DecValue(t.lead))
            ELSE pc = "panicked" /\ err = ParseIntError

\* a line whose tag is known= and a count with leading zeros has been
\* classified as a KnownEdge of that count
C8_Witness ==
    /\ Classified
    /\ \E a \in AddrTokens, t \in ResultTags :
           /\ t.expect = "KnownEdge" /\ Len(t.lead) > 1
           /\ lines[1] = ResultLine(a.text, t.text)
           /\ results[1] = KnownEdge(a.value, DecValue(t.lead))

\* ------------------------------------------------------------------------
\* C9 as claimed.  A WeakMapEntry line classifies as WeakMap(map, key,
\* keyDelegate, value), each field 0 when its text is (nil) and the
\* hexadecimal value of its text otherwise, for each of the four fields.
\* WEAK_MAP_RE has no (nil) alternative for value=, so a line with
\* value=(nil) matches no pattern: the statement fails.
\* ------------------------------------------------------------------------
C9_AnyFieldMayBeNil ==
    \A m \in WeakMapFields, k \in WeakMapFields, d \in WeakMapFields, v \in WeakMapFields :
        (LineRead /\ lines[1] = WeakMapLine(m.text, k.text, d.text, v.text)) =>
            /\ pc # "panicked"
            /\ Classified => results[1] = WeakMap(m.value, k.value, d.value, v.value)

\* ------------------------------------------------------------------------
\* C9 as amended.  A WeakMapEntry line whose value field is a hexadecimal
\* address classifies as WeakMap(map, key, keyDelegate, value), each of map,
\* key and keyDelegate 0 when its text is (nil) and the hexadecimal value of
\* its text otherwise; a line whose value field is (nil) matches no pattern
\* and ends the parse in UnrecognizedLine.
\* ------------------------------------------------------------------------
C9_FirstThreeFieldsMayBeNil ==
    \A m \in WeakMapFields, k \in WeakMapFields, d \in WeakMapFields, v \in WeakMapFields :
        (LineRead /\ lines[1] = WeakMapLine(m.text, k.text, d.text, v.text)) =>
            IF v.text = NilText
            THEN pc = "panicked" /\ err = UnrecognizedLine
            ELSE /\ pc # "panicked"
                 /\ Classified => results[1] = WeakMap(m.value, k.value, d.value, v.value)

\* a line with map=(nil), keyDelegate=(nil) and addresses for key and value
\* has been classified
C9_Witness ==
    /\ Classified
    /\ \E k \in WeakMapFields, v \in WeakMapFields :
           /\ k.text # NilText /\ v.text # NilText
           /\ lines[1] = WeakMapLine(NilText, k.text, NilText, v.text)
           /\ results[1] = WeakMap(0, k.value, 0, v.value)

\* ------------------------------------------------------------------------
\* C10 as claimed.  The type token of a Node line gives RefCounted(N) for
\* rc=<N>, for every digit string N the Node pattern accepts, and GC(marked)
\* for any other accepted token, marked only for gc.marked.  The count is an
\* i32: NodeType::new panics in unwrap() for N above i32::MAX, which
\* NODE_RE accepts: the statement fails.
\* ------------------------------------------------------------------------
ExpectedNodeType(t) ==
    IF t.expect = "RefCounted"
    THEN [tag |-> "RefCounted", rc |-> DecValue(t.digits)]
    ELSE [tag |-> "GC", marked |-> t.marked]

C10_TypeTokenGivesNodeType ==
    \A a \in AddrTokens, t \in TypeTokens, l \in NodeLabels :
        (LineRead /\ lines[1] = NodeLine(a.text, t.text, l)) =>
            /\ pc # "panicked"
            /\ Classified =>
                   /\ results[1].kind = "Node"
                   /\ results[1].ty = ExpectedNodeType(t)

\* ------------------------------------------------------------------------
\* C10 as amended.  The type token of a Node line gives RefCounted(N) for
\* rc=<N> when N is at most i32::MAX (2147483647), and the parse ends in a
\* panic of unwrap() (ParseIntError) when N is larger; any other accepted
\* token gives GC(marked), marked only for gc.marked.
\* ------------------------------------------------------------------------
C10_TypeTokenGivesNodeTypeInRange ==
    \A a \in AddrTokens, t \in TypeTokens, l \in NodeLabels :
        (LineRead /\ lines[1] = NodeLine(a.text, t.text, l)) =>
            IF t.expect = "RefCounted" /\ ~DecLeq(Significant(t.digits), I32MaxText)
            THEN pc = "panicked" /\ err = ParseIntError
            ELSE /\ pc # "panicked"
                 /\ Classified =>
                        /\ results[1].kind = "Node"
                        /\ results[1].ty = ExpectedNodeType(t)

\* a Node line of the largest count that fits has been classified
C10_Witness ==
    /\ Classified
    /\ \E a \in AddrTokens, l \in NodeLabels :
           lines[1] = NodeLine(a.text, RcLead \o I32MaxText, l)
    /\ results[1].kind = "Node"
    /\ results[1].ty = [tag |-> "RefCounted", rc |-> DecValue(I32MaxText)]

\* ------------------------------------------------------------------------
\* C11.  When the parse ends without error, known_edges maps each address
\* of a KnownEdge line after the first Separator to the count of the last
\* such line of that address (a repeated address overwrites, the counts are
\* not summed), and has no other key.  The results builder never reads a
\* line, CCGraph::parse having read the reader to its end, so known_edges is
\* the empty map whatever follows the Separator: the statement fails.
\* ------------------------------------------------------------------------
\* index of the last KnownEdge line of address a after the first Separator
LastKnownEdgeLine(a) ==
    CHOOSE i \in ResultLinesOfKind("KnownEdge") :
        /\ LineParsed(i).addr = a
        /\ \A j \in ResultLinesOfKind("KnownEdge") : LineParsed(j).addr = a => j <= i

C11_KnownEdgesHoldLastCount ==
    pc = "done" =>
        known_edges =
            [a \in {LineParsed(i).addr : i \in ResultLinesOfKind("KnownEdge")} |->
                LineParsed(LastKnownEdgeLine(a)).count]

\* ------------------------------------------------------------------------
\* C12.  A Garbage line after the first Separator whose address an earlier
\* Garbage line after the Separator already gave is not an error, and when
\* the parse ends without error the garbage set is the set of the distinct
\* addresses of the Garbage lines after the Separator.  The results builder
\* never reads a line, so the garbage set is empty: the statement fails.
\* ------------------------------------------------------------------------
\* line j is a Garbage line of the results section that repeats the address
\* of an earlier one
RepeatedGarbageLine(j) ==
    /\ j \in ResultLinesOfKind("Garbage")
    /\ \E i \in ResultLinesOfKind("Garbage") :
           i < j /\ LineParsed(i).addr = LineParsed(j).addr

C12_GarbageInsertIsIdempotent ==
    \A j \in 1..Len(lines) :
        (RepeatedGarbageLine(j) /\ pos >= j) =>
            /\ ~(pc = "panicked" /\ pos = j)
            /\ pc = "done" =>
                   /\ LineParsed(j).addr \in garbage
                   /\ garbage = {LineParsed(i).addr : i \in ResultLinesOfKind("Garbage")}
                   /\ Cardinality(garbage) < Cardinality(ResultLinesOfKind("Garbage"))

\* ------------------------------------------------------------------------
\* C13.  When the input has no Separator line and the parse ends without
\* error, the node open at the end of the input (that of the last Node
\* line) is a key of graph.nodes, the garbage set is empty and known_edges
\* is the empty map.  The results are empty indeed, but CCGraph::parse
\* returns at the end of the input without finalising anything, so the last
\* node is lost like every other: the statement fails.
\* ------------------------------------------------------------------------
\* line i is the Node line whose node is open when the input ends
OpenAtEndOfInput(i) ==
    /\ LineKind(i) = "Node"
    /\ NodeClose(i) = Len(lines) + 1

C13_EndOfInputFinalisesOpenNode ==
    (pc = "done" /\ FirstSeparator = Len(lines) + 1) =>
        /\ \A i \in 1..Len(lines) :
               OpenAtEndOfInput(i) => LineParsed(i).addr \in DOMAIN nodes
        /\ garbage = {}
        /\ known_edges = EmptyMap

\* ------------------------------------------------------------------------
\* C15.  The error the parse reports is that of the earliest erroneous line:
\* when the first erroneous line of the input is one the builder refuses (an
\* Edge line before any Node line, or a well-formed line in the wrong
\* section) and a later line does not classify, the parse ends at the
\* earlier line in EdgeWithoutNode or UnexpectedLine, not at the later one.
\* CCGraph::parse has no builder step and refuses no classified line, so the
\* first error it meets is that of the later line: the statement fails.
\* ------------------------------------------------------------------------
\* line k is one the builder refuses
BuilderErrorLine(k) == EdgeBeforeAnyNode(k) \/ InWrongSection(k)

\* the error the builder gives for such a line
BuilderErrorOf(k) == IF EdgeBeforeAnyNode(k) THEN EdgeWithoutNode ELSE UnexpectedLine

\* no line before k is erroneous: each classifies, the builder refuses none,
\* and no two Node lines give the same address
NoErrorBefore(k) ==
    /\ \A j \in 1..(k - 1) : LineKind(j) # "Panic" /\ ~BuilderErrorLine(j)
    /\ \A i, j \in 1..(k - 1) :
           (GraphNodeLine(i) /\ GraphNodeLine(j) /\ LineParsed(i).addr = LineParsed(j).addr)
               => i = j

C15_EarliestErrorIsReported ==
    \A k \in 1..Len(lines) :
        (/\ LineKind(k) # "Panic" /\ BuilderErrorLine(k) /\ NoErrorBefore(k)
         /\ \E m \in (k + 1)..Len(lines) : LineKind(m) = "Panic"
         /\ pc = "panicked") =>
            (pos = k /\ err = BuilderErrorOf(k))

\* ------------------------------------------------------------------------
\* C16 as claimed.  At most one of the six patterns of parse_line matches a
\* line.  A Node line of type rc=<N> or gc matches RESULT_RE as well, its
\* type token being made of the characters of a result tag: the statement
\* fails.
\* ------------------------------------------------------------------------
\* the patterns of parse_line that match the line
MatchingPatterns(line) ==
    {p \in {"Edge", "Node", "ResultEntry", "WeakMapEntry", "Comment", "Separator"} :
        \/ p = "Edge" /\ EDGE_RE(line).ok
        \/ p = "Node" /\ NODE_RE(line).ok
        \/ p = "ResultEntry" /\ RESULT_RE(line).ok
        \/ p = "WeakMapEntry" /\ WEAK_MAP_RE(line).ok
        \/ p = "Comment" /\ COMMENT_RE(line)
        \/ p = "Separator" /\ SEPARATOR_RE(line)}

C16_PatternsAreMutuallyExclusive ==
    LineRead => Cardinality(MatchingPatterns(lines[1])) <= 1

\* ------------------------------------------------------------------------
\* C16 as amended.  At most one of the six patterns matches a line, but for
\* lines that match both the Node and the ResultEntry pattern and no other;
\* every line that matches the Node pattern with a type token made of
\* lower-case letters, digits and = only (rc=<N>, gc) is such a line.  Their
\* classification depends on the order of the patterns: Node is tried first,
\* so such a line is classified as a Node, or ends the parse in the
\* InvalidAddress or ParseIntError of the Node arm, and never reaches the
\* ResultEntry arm.
\* ------------------------------------------------------------------------
\* every character of the token is one RESULT_RE takes in a tag
TagOnly(tok) == \A i \in 1..Len(tok) : tok[i] \in TagChar

C16_OnlyNodeAndResultOverlap ==
    LineRead =>
        /\ \/ Cardinality(MatchingPatterns(lines[1])) <= 1
           \/ /\ MatchingPatterns(lines[1]) = {"Node", "ResultEntry"}
              /\ pc = "panicked" => err \in {InvalidAddress, ParseIntError}
              /\ Classified => results[1].kind = "Node"
        /\ (NODE_RE(lines[1]).ok /\ TagOnly(NODE_RE(lines[1]).c2)) =>
               MatchingPatterns(lines[1]) = {"Node", "ResultEntry"}

\* a line that matches both the Node and the ResultEntry pattern has been
\* classified as a Node
C16_Witness ==
    /\ Classified
    /\ MatchingPatterns(lines[1]) = {"Node", "ResultEntry"}
    /\ results[1].kind = "Node"

\* ------------------------------------------------------------------------
\* C17.  In the graph section, reading a WeakMap line appends one entry,
\* that of the line, to weak_map_entries, and reading a Comment line leaves
\* weak_map_entries as it is; both leave graph.nodes unchanged.  The
\* Comment half holds, but CCGraph::parse pushes the WeakMap value onto its
\* local vector and never onto weak_map_entries, which stays empty: the
\* statement fails.  (CCGraph::parse keeps no open node, so there is no
\* open-node slot for a line to leave unchanged.)
\* ------------------------------------------------------------------------
\* the WeakMapEntry of WeakMap line i
WeakMapEntryOf(i) ==
    [weak_map |-> LineParsed(i).map, key |-> LineParsed(i).key,
     key_delegate |-> LineParsed(i).delegate, value |-> LineParsed(i).val]

\* this step reads a line of the graph section that classifies as kind
ReadsGraphLineOfKind(kind) ==
    /\ pc = "graph"
    /\ pos < Len(lines)
    /\ pos + 1 < FirstSeparator
    /\ LineKind(pos + 1) = kind
    /\ pos' = pos + 1

C17_WeakMapAndCommentLeaveNodes ==
    [][/\ ReadsGraphLineOfKind("WeakMap") =>
              /\ weak_map_entries' = Append(weak_map_entries, WeakMapEntryOf(pos + 1))
              /\ nodes' = nodes
       /\ ReadsGraphLineOfKind("Comment") =>
              /\ weak_map_entries' = weak_map_entries
              /\ nodes' = nodes]_vars

\* ------------------------------------------------------------------------
\* C18.  An address token of hexadecimal digits denotes the same address
\* with and without a leading 0x, in an Edge, Node, ResultEntry or
\* WeakMapEntry line alike (digits of more than 64 bits are refused in both
\* spellings); a line of one of those shapes whose address token has an
\* alphanumeric character that is no hexadecimal digit ends the parse in
\* InvalidAddress, not in UnrecognizedLine, and nothing of the line is
\* kept.
\* ------------------------------------------------------------------------
\* the parse has ended at the one line of the input in InvalidAddress and
\* holds nothing of it
EndedInInvalidAddress ==
    /\ pc = "panicked"
    /\ err = InvalidAddress
    /\ results = <<>>
    /\ atoms = {}

C18_AddressSpellingsAgree ==
    \A place \in AddrPlaces, pre \in Spellings :
        /\ \A d \in HexTexts :
               (LineRead /\ lines[1] = PlaceLine(place, pre \o d.text)) =>
                   /\ pc # "panicked"
                   /\ Classified => results[1] = PlaceParsed(place, d.value)
        /\ \A b \in BadAddrTexts \cup {TooWideHexText} :
               (LineRead /\ lines[1] = PlaceLine(place, pre \o b)) => EndedInInvalidAddress

\* a line whose address is spelled with 0x and upper-case digits has been
\* classified to the address its digits denote
C18_Witness ==
    /\ Classified
    /\ \E place \in AddrPlaces, d \in HexTexts :
           /\ \E i \in 1..Len(d.text) : d.text[i] \in Upper
           /\ lines[1] = PlaceLine(place, HexPrefix \o d.text)
           /\ results[1] = PlaceParsed(place, d.value)

\* ------------------------------------------------------------------------
\* C19 as claimed.  A line <hex> [gc], <hex> [gc.marked] or <hex> [rc=<N>]
\* with nothing after the ] is never classified as a Node: wherever it is
\* read, before or after the Separator, the parse ends at it in
\* UnknownResultTag.  RESULT_RE takes lower-case letters, digits and = in a
\* tag and no dot, so <hex> [gc.marked] matches no pattern at all and ends
\* the parse in UnrecognizedLine: the statement fails.
\* ------------------------------------------------------------------------
\* the type tokens of a Node line, with the panic a line of an address and
\* the token alone ends in
BareTypes ==
    {[text |-> GcLead, err |-> UnknownResultTag],
     [text |-> RcLead \o <<"3">>, err |-> UnknownResultTag],
     [text |-> GcDotLead \o MarkedText, err |-> UnrecognizedLine]}

C19_BareTypeLineIsUnknownResultTag ==
    \A k \in 1..pos, a \in AddrTokens, t \in BareTypes :
        lines[k] = ResultLine(a.text, t.text) =>
            (pc = "panicked" /\ pos = k /\ err = UnknownResultTag)

\* ------------------------------------------------------------------------
\* C19 as amended.  A line <hex> [gc], <hex> [gc.marked] or <hex> [rc=<N>]
\* with nothing after the ] is never classified as a Node, wherever it is
\* read, before or after the Separator: <hex> [gc] and <hex> [rc=<N>] fall
\* through to the ResultEntry pattern and end the parse in UnknownResultTag;
\* <hex> [gc.marked] matches no pattern and ends the parse in
\* UnrecognizedLine.
\* ------------------------------------------------------------------------
C19_BareTypeLineEndsTheParse ==
    \A k \in 1..pos, a \in AddrTokens, t \in BareTypes :
        lines[k] = ResultLine(a.text, t.text) =>
            (pc = "panicked" /\ pos = k /\ err = t.err /\ Len(results) = k - 1)

\* the parse has ended in UnknownResultTag at a line <hex> [rc=<N>] read
\* after a Separator line
C19_Witness ==
    /\ pc = "panicked"
    /\ err = UnknownResultTag
    /\ FirstSeparator < pos
    /\ lines[pos] = LineBareRc5

\* ------------------------------------------------------------------------
\* C20.  The set of incremental roots of the graph is empty in every
\* reachable state: CCGraph::new creates it empty and no line of any kind
\* puts an address into it.
\* ------------------------------------------------------------------------
C20_NoIncrementalRoots == incr_roots = {}

\* the parse has ended without error on an input of three lines one of
\* which is a Node line, and there is no incremental root
C20_Witness ==
    /\ pc = "done"
    /\ Len(lines) = MaxLines
    /\ \E i \in 1..Len(lines) : LineKind(i) = "Node"
    /\ \E i \in 1..Len(lines) : LineKind(i) = "Edge"
    /\ incr_roots = {}

====
